---- MODULE Spec2Model ----
(***************************************************************************)
(* The JSON-RPC bridge of revaultd (src/daemon/jsonrpc/api.rs): command    *)
(* handlers stop, getinfo and listvaults running on concurrent threads,    *)
(* the shared inbound mpsc queue, the per-call rendezvous channels, the    *)
(* shutdown flag of JsonRpcMetaData, and the main-thread worker loop that  *)
(* drains the queue.                                                       *)
(***************************************************************************)
EXTENDS Integers, Sequences, FiniteSets, TLC

(***************************************************************************)
(* Bounds of the model.                                                    *)
(***************************************************************************)
MaxInv == 2        \* handler invocations (threads) in one run
MaxMeta == 2       \* calls of JsonRpcMetaData::from_tx in one run
MaxIds == 2        \* length of the txids argument of listvaults

Inv == 1..MaxInv
Arcs == 1..MaxMeta

(***************************************************************************)
(* Option<T>: None is the empty tuple, Some(x) the one-element tuple.      *)
(***************************************************************************)
None == <<>>
Some(x) == <<x>>
IsSome(o) == Len(o) = 1
Unwrap(o) == o[1]

(***************************************************************************)
(* Strings that are decoded character by character are tuples of           *)
(* one-character strings.                                                  *)
(***************************************************************************)
RECURSIVE Rep(_, _)
Rep(c, n) == IF n = 0 THEN <<>> ELSE <<c>> \o Rep(c, n - 1)

TXID_LEN == 32

HexLower == <<"0", "1", "2", "3", "4", "5", "6", "7", "8", "9",
              "a", "b", "c", "d", "e", "f">>
HexUpper == <<"0", "1", "2", "3", "4", "5", "6", "7", "8", "9",
              "A", "B", "C", "D", "E", "F">>

\* char::to_digit(16): the digit's value, or -1 for None
to_digit(c) ==
    IF \E k \in 1..16 : HexLower[k] = c
    THEN (CHOOSE k \in 1..16 : HexLower[k] = c) - 1
    ELSE IF \E k \in 1..16 : HexUpper[k] = c
         THEN (CHOOSE k \in 1..16 : HexUpper[k] = c) - 1
         ELSE -1

Ok(v) == [ok |-> TRUE, val |-> v]
Err(e) == [ok |-> FALSE, err |-> e]

\* Txid::from_hex: a sha256d hash is displayed backwards, so the byte
\* iterator over the hex pairs is consumed from the end of the string.
PairAt(s, n) == <<s[2 * (TXID_LEN - n) + 1], s[2 * (TXID_LEN - n) + 2]>>
BadPair(p) == to_digit(p[1]) = -1 \/ to_digit(p[2]) = -1
from_hex(s) ==
    IF Len(s) % 2 # 0
    THEN Err(<<"OddLengthString", Len(s)>>)
    ELSE IF Len(s) \div 2 # TXID_LEN
    THEN Err(<<"InvalidLength", 2 * TXID_LEN, Len(s)>>)
    ELSE IF \E n \in 1..TXID_LEN : BadPair(PairAt(s, n))
    THEN LET n == CHOOSE m \in 1..TXID_LEN :
                      /\ BadPair(PairAt(s, m))
                      /\ \A k \in 1..(m - 1) : ~BadPair(PairAt(s, k))
             p == PairAt(s, n)
         IN  Err(<<"InvalidChar", IF to_digit(p[1]) = -1 THEN p[1] ELSE p[2]>>)
    ELSE Ok([n \in 1..TXID_LEN |->
                16 * to_digit(PairAt(s, n)[1]) + to_digit(PairAt(s, n)[2])])

\* VaultStatus::from_str: the lifecycle-state names, case-sensitive
from_str(s) ==
    CASE s = "funded" -> Ok("Funded")
      [] s = "spent"  -> Ok("Spent")
      [] OTHER        -> Err("ParseError")

(***************************************************************************)
(* Arguments the callers supply.                                           *)
(***************************************************************************)
TxA == Rep("a", 2 * TXID_LEN)
TxB == <<"0", "1">> \o Rep("C", 2 * TXID_LEN - 2)
TxZZ == <<"z", "z">>
TxOdd == Rep("a", 2 * TXID_LEN - 1)
TxBadChar == Rep("a", 2 * TXID_LEN - 3) \o <<"g", "a", "a">>

RECURSIVE SeqsUpTo(_, _)
SeqsUpTo(S, n) ==
    IF n = 0 THEN {<<>>}
    ELSE LET shorter == SeqsUpTo(S, n - 1)
         IN  shorter \cup {Append(l, x) : l \in shorter, x \in S}

OptionsOf(S) == {None} \cup {Some(x) : x \in S}

\* what callers pass to listvaults: every combination up to MaxIds txids, and
\* the few combinations used when several invocations run concurrently
StatusStrings == {"funded", "Funded", "bogus"}
TxidStrings == {TxA, TxB, TxZZ, TxOdd, TxBadChar}
StatusArgs == OptionsOf(StatusStrings)
TxidsArgs == OptionsOf(SeqsUpTo(TxidStrings, MaxIds))
FewStatusArgs == {None, Some("funded"), Some("bogus")}
FewTxidsArgs == {None, Some(<<TxB>>), Some(<<TxB, TxZZ>>)}

(***************************************************************************)
(* listvaults: validation and decoding of the two filters.                 *)
(***************************************************************************)
\* JsonRpcError::invalid_params(message); the message is kept as the pieces
\* format! joins
invalid_params(message) == [code |-> "InvalidParams", message |-> message]

\* faulty validation: an unrecognized status is taken as no filter
ParseStatusLenient(status) ==
    IF IsSome(status) /\ from_str(Unwrap(status)).ok
    THEN Ok(Some(from_str(Unwrap(status)).val))
    ELSE Ok(None)

\* lines 109-115: Some(VaultStatus::from_str(&status).map_err(..)?) or None
ParseStatus(status) ==
    IF IsSome(status)
    THEN LET r == from_str(Unwrap(status))
         IN  IF r.ok
             THEN Ok(Some(r.val))
             ELSE Err(invalid_params(
                      <<"'", Unwrap(status), "' is not a valid vault status">>))
    ELSE Ok(None)

TxidError(tx_str, e) ==
    invalid_params(<<"'", tx_str, "' is not a valid txid (", e, ")">>)

\* faulty decoding: the txids collected in reverse
RECURSIVE CollectBackwards(_)
CollectBackwards(strs) ==
    IF strs = <<>> THEN Ok(<<>>)
    ELSE LET h == from_hex(Head(strs))
         IN  IF ~h.ok THEN Err(TxidError(Head(strs), h.err))
             ELSE LET r == CollectBackwards(Tail(strs))
                  IN  IF r.ok THEN Ok(r.val \o <<h.val>>) ELSE r

\* map(from_hex).collect::<Result<Vec<Txid>>>(): the first error, or all
RECURSIVE Collect(_)
Collect(strs) ==
    IF strs = <<>> THEN Ok(<<>>)
    ELSE LET h == from_hex(Head(strs))
         IN  IF ~h.ok THEN Err(TxidError(Head(strs), h.err))
             ELSE LET r == Collect(Tail(strs))
                  IN  IF r.ok THEN Ok(<<h.val>> \o r.val) ELSE r

\* faulty decoding: filter_map(from_hex(..).ok()), the valid txids only
RECURSIVE CollectValid(_)
CollectValid(strs) ==
    IF strs = <<>> THEN <<>>
    ELSE LET h == from_hex(Head(strs))
         IN  (IF h.ok THEN <<h.val>> ELSE <<>>) \o CollectValid(Tail(strs))

ParseTxidsSkipInvalid(txids) ==
    IF IsSome(txids) THEN Ok(Some(CollectValid(Unwrap(txids)))) ELSE Ok(None)

\* lines 116-133: Some(collected txids) or None
ParseTxids(txids) ==
    IF IsSome(txids)
    THEN LET r == Collect(Unwrap(txids))
         IN  IF r.ok THEN Ok(Some(r.val)) ELSE r
    ELSE Ok(None)

\* faulty validation: the txids are parsed before the status
ParseFiltersTxidsFirst(status, txids) ==
    LET t == ParseTxids(txids)
    IN  IF ~t.ok THEN t
        ELSE LET s == ParseStatus(status)
             IN  IF ~s.ok THEN s ELSE Ok(<<s.val, t.val>>)

\* the two `?` of listvaults, in program order
ParseFilters(status, txids) ==
    LET s == ParseStatus(status)
    IN  IF ~s.ok THEN s
        ELSE LET t == ParseTxids(txids)
             IN  IF ~t.ok THEN t ELSE Ok(<<s.val, t.val>>)

(***************************************************************************)
(* State.                                                                  *)
(***************************************************************************)
VARIABLES
    arcs,       \* how many Arc<AtomicBool> from_tx has allocated: Arcs 1..arcs
    flag,       \* the AtomicBool behind each Arc
    queue,      \* the inbound mpsc channel of ThreadMessageIn
    rxAlive,    \* its Receiver has not been dropped
    chan,       \* the sync_channel(0) each invocation created
    pc,         \* where each handler invocation is
    op,         \* which handler it runs
    meta,       \* the JsonRpcMetaData it was given: the Arc it holds (0: none)
    args,       \* the (status, txids) arguments of a listvaults
    resp,       \* what it returned to its caller, if it did
    exited,     \* process::exit was called
    wpc,        \* where the worker loop is
    nextSeq,    \* history: envelopes enqueued so far, plus one
    seqOf,      \* history: position in enqueue order of each invocation's envelope
    sends,      \* history: envelopes each invocation enqueued
    recvs,      \* history: recv() calls each invocation returned from
    got,        \* history: the envelope the received value was produced for
    firstShut,  \* history: enqueue position of the first Shutdown envelope
    executed,   \* history: enqueue positions of the envelopes the worker executed
    terminations \* history: times the worker loop ended

vars == <<arcs, flag, queue, rxAlive, chan, pc, op, meta, args, resp, exited,
          wpc, nextSeq, seqOf, sends, recvs, got, firstShut, executed,
          terminations>>

metaVars == <<arcs, flag>>
workerVars == <<wpc, executed, terminations>>
histVars == <<nextSeq, seqOf, sends, recvs, got, firstShut>>

NoChan == 0
NoArgs == <<None, None>>
VERSION == "0.1.0"

\* ThreadMessageIn::Rpc(RpcMessageIn::..): tx is the reply Sender it carries;
\* via (the context it was sent through) and seq are history
Shutdown(m, n) ==
    [kind |-> "Shutdown", filter |-> NoArgs, tx |-> NoChan, via |-> m, seq |-> n]
GetInfo(tx, m, n) ==
    [kind |-> "GetInfo", filter |-> NoArgs, tx |-> tx, via |-> m, seq |-> n]
ListVaults(filter, tx, m, n) ==
    [kind |-> "ListVaults", filter |-> filter, tx |-> tx, via |-> m, seq |-> n]

\* a channel that buffers one value: its send returns at once
BoundOfOne == 0 + 1
\* mpsc::sync_channel(0): no buffer, a send returns when the value is received
sync_channel_bound == 0
\* a reply channel before it is created, and as created
NoChannel == [st |-> "none", val |-> None]
NewChannel == [st |-> "open", val |-> None]

\* the daemon has made its queue and called from_tx once
Init ==
    /\ arcs = 1
    /\ flag = [a \in Arcs |-> FALSE]
    /\ queue = <<>>
    /\ rxAlive = TRUE
    /\ chan = [i \in Inv |-> NoChannel]
    /\ pc = [i \in Inv |-> "Idle"]
    /\ op = [i \in Inv |-> "none"]
    /\ meta = [i \in Inv |-> 0]
    /\ args = [i \in Inv |-> NoArgs]
    /\ resp = [i \in Inv |-> None]
    /\ exited = FALSE
    /\ wpc = "draining"
    /\ nextSeq = 1
    /\ seqOf = [i \in Inv |-> 0]
    /\ sends = [i \in Inv |-> 0]
    /\ recvs = [i \in Inv |-> 0]
    /\ got = [i \in Inv |-> 0]
    /\ firstShut = 0
    /\ executed = {}
    /\ terminations = 0

(***************************************************************************)
(* JsonRpcMetaData: a value holding the queue's Sender and an Arc.  There  *)
(* is one inbound queue, so a context is identified by its Arc.            *)
(***************************************************************************)
\* from_tx: a context with an Arc of its own, holding false.  Contexts no
\* invocation was given change nothing, so the next one is made once the
\* last one is in use.
from_tx ==
    /\ ~exited
    /\ arcs < MaxMeta
    /\ \E i \in Inv : meta[i] = arcs
    /\ arcs' = arcs + 1
    /\ flag' = [flag EXCEPT ![arcs + 1] = FALSE]
    /\ UNCHANGED <<queue, rxAlive, chan, pc, op, meta, args, resp, exited>>
    /\ UNCHANGED <<workerVars, histVars>>

\* #[derive(Clone)]: the copy holds the same Sender and the same Arc
clone(m) == m

\* faulty load: the value the flag was constructed with
LoadInitialValue(m) == FALSE
\* self.shutdown.load(Ordering::Relaxed)
is_shutdown(m) == flag[m]

\* faulty stores: none at all, and a toggle
StoreNothing(m) == flag
StoreNegation(m) == [flag EXCEPT ![m] = ~@]
\* self.shutdown.store(true, Ordering::Relaxed)
shutdown(m) == [flag EXCEPT ![m] = TRUE]

\* an invocation starts on a thread of its own, given a copy of a context
Starts(i, m) ==
    /\ ~exited
    /\ pc[i] = "Idle"
    /\ \A j \in 1..(i - 1) : pc[j] # "Idle"
    /\ m \in 1..arcs
    /\ op[i] = "none"
    /\ meta' = [meta EXCEPT ![i] = clone(m)]

\* faulty shutdown(): it also sends a Shutdown envelope
CallShutdownAndSend(i, m) ==
    /\ Starts(i, m)
    /\ flag' = shutdown(m)
    /\ pc' = [pc EXCEPT ![i] = "Completed"]
    /\ op' = [op EXCEPT ![i] = "shutdown"]
    /\ queue' = IF rxAlive THEN Append(queue, Shutdown(m, nextSeq)) ELSE queue
    /\ nextSeq' = IF rxAlive THEN nextSeq + 1 ELSE nextSeq
    /\ firstShut' = IF rxAlive /\ firstShut = 0 THEN nextSeq ELSE firstShut
    /\ UNCHANGED <<arcs, rxAlive, chan, args, resp, exited>>
    /\ UNCHANGED <<workerVars, seqOf, sends, recvs, got>>

\* the server's own use of the context: meta.shutdown()
CallShutdown(i, m) ==
    /\ Starts(i, m)
    /\ flag' = shutdown(m)
    /\ pc' = [pc EXCEPT ![i] = "Completed"]
    /\ op' = [op EXCEPT ![i] = "shutdown"]
    /\ UNCHANGED <<arcs, queue, rxAlive, chan, args, resp, exited>>
    /\ UNCHANGED <<workerVars, histVars>>

\* the server's own use of the context: meta.is_shutdown()
CallIsShutdown(i, m) ==
    /\ Starts(i, m)
    /\ pc' = [pc EXCEPT ![i] = "Completed"]
    /\ op' = [op EXCEPT ![i] = "is_shutdown"]
    /\ resp' = [resp EXCEPT ![i] = Some(Ok(is_shutdown(m)))]
    /\ UNCHANGED <<metaVars, queue, rxAlive, chan, args, exited>>
    /\ UNCHANGED <<workerVars, histVars>>

(***************************************************************************)
(* The handlers of RpcImpl.                                                *)
(***************************************************************************)
\* faulty sends, to test what the properties are sensitive to: a LIFO queue,
\* a duplicated message
EnqueueFront(q, e) == <<e>> \o q
EnqueueTwice(q, e) == Append(Append(q, e), e)
\* Sender::send on a channel whose Receiver is alive
Enqueue(q, e) == Append(q, e)

\* history of a send by invocation i; the count is what the queue grew by
Sent(i, kind) ==
    /\ nextSeq' = nextSeq + 1
    /\ seqOf' = [seqOf EXCEPT ![i] = nextSeq]
    /\ sends' = [sends EXCEPT ![i] = @ + Len(queue') - Len(queue)]
    /\ firstShut' = IF kind = "Shutdown" /\ firstShut = 0 THEN nextSeq ELSE firstShut
    /\ UNCHANGED <<recvs, got>>

\* faulty stop: the envelope is sent before the flag is stored
StopProgramSendFirst == <<"send", "store">>
\* stop: the two effects of its body, in program order
StopProgram == <<"store", "send">>

\* one effect of stop by invocation i on context m; `last` when the body
\* returns Ok(()) after it
StopEffect(i, m, what, last) ==
    /\ UNCHANGED <<arcs, rxAlive, chan, args, exited, workerVars>>
    /\ IF what = "store"
       THEN /\ flag' = shutdown(m)
            /\ pc' = [pc EXCEPT ![i] = IF last THEN "Completed" ELSE "Dispatched"]
            /\ resp' = [resp EXCEPT ![i] = IF last THEN Some(Ok(<<>>)) ELSE None]
            /\ UNCHANGED <<queue, histVars>>
       ELSE IF rxAlive
       THEN /\ queue' = Enqueue(queue, Shutdown(m, nextSeq))
            /\ Sent(i, "Shutdown")
            /\ pc' = [pc EXCEPT ![i] = IF last THEN "Completed" ELSE "Dispatched"]
            /\ resp' = [resp EXCEPT ![i] = IF last THEN Some(Ok(<<>>)) ELSE None]
            /\ UNCHANGED flag
       ELSE \* .unwrap() of the SendError
            /\ pc' = [pc EXCEPT ![i] = "Panicked"]
            /\ UNCHANGED <<flag, queue, resp, histVars>>

stop(i, m) ==
    /\ Starts(i, m)
    /\ op' = [op EXCEPT ![i] = "stop"]
    /\ StopEffect(i, m, StopProgram[1], FALSE)

StopSend(i) ==
    /\ ~exited
    /\ pc[i] = "Dispatched"
    /\ op[i] = "stop"
    /\ UNCHANGED <<op, meta>>
    /\ StopEffect(i, meta[i], StopProgram[2], TRUE)

\* faulty error handling: the failure is returned to the caller as an error
OnErrorReturnsError ==
    [pc |-> "Completed", exit |-> FALSE,
     resp |-> Some(Err([code |-> "InternalError", message |-> <<>>]))]
\* unwrap_or_else(|e| { log::error!(..); process::exit(1) }) of a failed send
\* or recv: where the invocation ends, whether the process exits, the response
OnError == [pc |-> "Fatal", exit |-> TRUE, resp |-> None]

\* faulty dispatch: a command arriving with the flag set is refused
DispatchUnlessShutdown(i, name, a, envelope) ==
    /\ op' = [op EXCEPT ![i] = name]
    /\ args' = [args EXCEPT ![i] = a]
    /\ UNCHANGED <<metaVars, rxAlive, workerVars>>
    /\ IF flag[meta'[i]]
       THEN /\ pc' = [pc EXCEPT ![i] = "Rejected"]
            /\ resp' = [resp EXCEPT ![i] = Some(Err(invalid_params(<<"shutting down">>)))]
            /\ UNCHANGED <<queue, chan, exited, histVars>>
       ELSE /\ chan' = [chan EXCEPT ![i] = NewChannel]
            /\ IF rxAlive
               THEN /\ queue' = Enqueue(queue, envelope)
                    /\ Sent(i, name)
                    /\ pc' = [pc EXCEPT ![i] = "AwaitingReply"]
                    /\ UNCHANGED <<resp, exited>>
               ELSE /\ pc' = [pc EXCEPT ![i] = OnError.pc]
                    /\ exited' = OnError.exit
                    /\ resp' = [resp EXCEPT ![i] = OnError.resp]
                    /\ UNCHANGED <<queue, histVars>>

\* sync_channel(0), then meta.tx.send(envelope carrying response_tx)
Dispatch(i, name, a, envelope) ==
    /\ op' = [op EXCEPT ![i] = name]
    /\ args' = [args EXCEPT ![i] = a]
    /\ chan' = [chan EXCEPT ![i] = NewChannel]
    /\ UNCHANGED <<metaVars, rxAlive, workerVars>>
    /\ IF rxAlive
       THEN /\ queue' = Enqueue(queue, envelope)
            /\ Sent(i, name)
            /\ pc' = [pc EXCEPT ![i] = "AwaitingReply"]
            /\ UNCHANGED <<resp, exited>>
       ELSE /\ pc' = [pc EXCEPT ![i] = OnError.pc]
            /\ exited' = OnError.exit
            /\ resp' = [resp EXCEPT ![i] = OnError.resp]
            /\ UNCHANGED <<queue, histVars>>

getinfo(i, m) ==
    /\ Starts(i, m)
    /\ Dispatch(i, "getinfo", NoArgs, GetInfo(i, m, nextSeq))

listvaults(i, m, status, txids) ==
    /\ Starts(i, m)
    /\ LET f == ParseFilters(status, txids)
       IN  IF f.ok
           THEN Dispatch(i, "listvaults", <<status, txids>>,
                         ListVaults(f.val, i, m, nextSeq))
           ELSE /\ pc' = [pc EXCEPT ![i] = "Rejected"]
                /\ op' = [op EXCEPT ![i] = "listvaults"]
                /\ args' = [args EXCEPT ![i] = <<status, txids>>]
                /\ resp' = [resp EXCEPT ![i] = Some(f)]
                /\ UNCHANGED <<metaVars, queue, rxAlive, chan, exited>>
                /\ UNCHANGED <<workerVars, histVars>>

\* faulty receive: one reply slot shared by the invocations of a handler
AnyOfferedChannel(i) ==
    IF \E j \in Inv : chan[j].st = "offered" /\ op[j] = op[i]
    THEN CHOOSE j \in Inv : chan[j].st = "offered" /\ op[j] = op[i]
    ELSE i
\* the Receiver an invocation blocks on: the one of the channel it created
response_rx(i) == i

\* faulty result: two fields of the triple exchanged
JsonNetworkAndSyncSwapped(name, v) ==
    IF name = "getinfo"
    THEN [version |-> VERSION, network |-> v[3], blockheight |-> v[2], sync |-> v[1]]
    ELSE [vaults |-> v]
\* json!({..}) of the value received
Json(name, v) ==
    IF name = "getinfo"
    THEN [version |-> VERSION, network |-> v[1], blockheight |-> v[2], sync |-> v[3]]
    ELSE [vaults |-> v]

\* faulty recv: a dropped Sender goes unnoticed
RecvNeverErrs(st) == FALSE
\* response_rx.recv() returns Err once the channel's Sender is dropped
RecvError(st) == st = "dropped"

\* response_rx.recv(): the rendezvous with the worker's send, or the error
\* once the Sender is dropped
Recv(i) ==
    /\ ~exited
    /\ pc[i] = "AwaitingReply"
    /\ UNCHANGED <<metaVars, queue, rxAlive, op, meta, args>>
    /\ UNCHANGED <<executed, terminations>>
    /\ UNCHANGED <<nextSeq, seqOf, sends, firstShut>>
    /\ recvs' = [recvs EXCEPT ![i] = @ + 1]
    /\ LET r == response_rx(i)
       IN  \/ /\ chan[r].st = "offered"
              /\ LET v == Unwrap(chan[r].val)
                 IN  /\ resp' = [resp EXCEPT ![i] = Some(Ok(Json(op[i], v.val)))]
                     /\ got' = [got EXCEPT ![i] = v.forSeq]
              /\ chan' = [chan EXCEPT ![r] = [st |-> "done", val |-> None]]
              /\ pc' = [pc EXCEPT ![i] = "Completed"]
              /\ wpc' = IF sync_channel_bound = 0 THEN "draining" ELSE wpc
              /\ UNCHANGED exited
           \/ /\ RecvError(chan[r].st)
              /\ pc' = [pc EXCEPT ![i] = OnError.pc]
              /\ exited' = OnError.exit
              /\ resp' = [resp EXCEPT ![i] = OnError.resp]
              /\ UNCHANGED <<chan, wpc, got>>

(***************************************************************************)
(* The worker loop of the main thread.                                     *)
(***************************************************************************)
Txid(s) == from_hex(s).val
Vaults == <<[id |-> "v1", status |-> "Funded", txid |-> Txid(TxA)],
            [id |-> "v2", status |-> "Funded", txid |-> Txid(TxB)],
            [id |-> "v3", status |-> "Spent", txid |-> Txid(Rep("0", 2 * TXID_LEN))]>>

Elems(l) == {l[k] : k \in 1..Len(l)}

\* the vaults a filter selects, by id
FilterVaults(filter) ==
    LET keep(v) ==
            /\ IsSome(filter[1]) => v.status = Unwrap(filter[1])
            /\ IsSome(filter[2]) => v.txid \in Elems(Unwrap(filter[2]))
        kept == SelectSeq(Vaults, keep)
    IN  [k \in 1..Len(kept) |-> kept[k].id]

\* the worker's chain state: network, block height, sync progress
WorkerInfo == <<"testnet", 100, "1.0">>

Reply(e) ==
    IF e.kind = "GetInfo" THEN WorkerInfo ELSE FilterVaults(e.filter)

\* the loop takes the next envelope, executes it and sends the reply, which
\* blocks until the handler receives
WorkerExecute(kind) ==
    /\ ~exited
    /\ wpc = "draining"
    /\ rxAlive
    /\ queue # <<>>
    /\ Head(queue).kind = kind
    /\ kind # "Shutdown"
    /\ LET e == Head(queue)
       IN  /\ queue' = Tail(queue)
           /\ chan' = [chan EXCEPT ![e.tx] =
                          [st |-> "offered",
                           val |-> Some([val |-> Reply(e), forSeq |-> e.seq])]]
           /\ executed' = executed \cup {e.seq}
    /\ wpc' = IF sync_channel_bound = 0 THEN "sending" ELSE "draining"
    /\ UNCHANGED <<metaVars, rxAlive, pc, op, meta, args, resp, exited>>
    /\ UNCHANGED <<terminations, histVars>>

\* the loop takes a Shutdown envelope and ends
WorkerShutdown ==
    /\ ~exited
    /\ wpc = "draining"
    /\ rxAlive
    /\ queue # <<>>
    /\ Head(queue).kind = "Shutdown"
    /\ queue' = Tail(queue)
    /\ wpc' = "terminated"
    /\ terminations' = terminations + 1
    /\ UNCHANGED <<metaVars, rxAlive, chan, pc, op, meta, args, resp, exited>>
    /\ UNCHANGED <<executed, histVars>>

\* the ended loop drops the Receiver, and with it every envelope still
\* queued and the reply Sender each carries
WorkerDropRx ==
    /\ ~exited
    /\ wpc = "terminated"
    /\ rxAlive
    /\ rxAlive' = FALSE
    /\ queue' = <<>>
    /\ chan' = [j \in Inv |->
                   IF \E k \in 1..Len(queue) : queue[k].tx = j
                   THEN [st |-> "dropped", val |-> None]
                   ELSE chan[j]]
    /\ UNCHANGED <<metaVars, pc, op, meta, args, resp, exited>>
    /\ UNCHANGED <<workerVars, histVars>>

(***************************************************************************)
(* The program: any handlers, concurrently, on any contexts.               *)
(***************************************************************************)
Next ==
    \/ from_tx
    \/ \E i \in Inv, m \in Arcs : CallShutdown(i, m)
    \/ \E i \in Inv, m \in Arcs : CallIsShutdown(i, m)
    \/ \E i \in Inv, m \in Arcs : stop(i, m)
    \/ \E i \in Inv : StopSend(i)
    \/ \E i \in Inv, m \in Arcs : getinfo(i, m)
    \/ \E i \in Inv, m \in Arcs, status \in FewStatusArgs, txids \in FewTxidsArgs :
           listvaults(i, m, status, txids)
    \/ \E i \in Inv : Recv(i)
    \/ WorkerExecute("GetInfo")
    \/ WorkerExecute("ListVaults")
    \/ WorkerShutdown
    \/ WorkerDropRx

Spec == Init /\ [][Next]_vars

(***************************************************************************)
(* The program with one listvaults, of any arguments, among stops.         *)
(***************************************************************************)
NextArgs ==
    \/ \E i \in Inv, status \in StatusArgs, txids \in TxidsArgs :
           /\ \A j \in Inv : op[j] # "listvaults"
           /\ listvaults(i, 1, status, txids)
    \/ \E i \in Inv : stop(i, 1)
    \/ \E i \in Inv : StopSend(i)
    \/ \E i \in Inv : Recv(i)
    \/ WorkerExecute("ListVaults")
    \/ WorkerShutdown
    \/ WorkerDropRx

SpecArgs == Init /\ [][NextArgs]_vars

(***************************************************************************)
(* The program under fair scheduling: a handler thread blocked in recv and *)
(* the worker's main thread each get to run when they can.                 *)
(***************************************************************************)
Fairness ==
    /\ \A i \in Inv : WF_vars(Recv(i))
    /\ WF_vars(WorkerExecute("GetInfo"))
    /\ WF_vars(WorkerExecute("ListVaults"))
    /\ WF_vars(WorkerShutdown)
    /\ WF_vars(WorkerDropRx)

SpecFair == Spec /\ Fairness

(***************************************************************************)
(* Vocabulary of the properties.                                           *)
(***************************************************************************)
\* the lifecycle-state names
RecognizedStatus == {"funded", "spent"}
\* a fixed-length hex hash
IsHexTxid(s) ==
    /\ Len(s) = 2 * TXID_LEN
    /\ \A k \in 1..Len(s) : to_digit(s[k]) # -1

StatusArg(i) == args[i][1]
TxidsArg(i) == args[i][2]
BadStatus(i) == IsSome(StatusArg(i)) /\ Unwrap(StatusArg(i)) \notin RecognizedStatus
BadTxids(i) ==
    /\ IsSome(TxidsArg(i))
    /\ \E k \in 1..Len(Unwrap(TxidsArg(i))) : ~IsHexTxid(Unwrap(TxidsArg(i))[k])
ValidFilters(i) == ~BadStatus(i) /\ ~BadTxids(i)

IsListVaults(i) == op[i] = "listvaults"
Replied(i) == op[i] \in {"getinfo", "listvaults"}
\* returned an invalid-parameter error, having sent nothing and made no channel
RejectedUnsent(i) ==
    /\ pc[i] = "Rejected"
    /\ IsSome(resp[i])
    /\ ~Unwrap(resp[i]).ok
    /\ Unwrap(resp[i]).err.code = "InvalidParams"
    /\ sends[i] = 0
    /\ seqOf[i] = 0
    /\ chan[i].st = "none"
    /\ \A k \in 1..Len(queue) : queue[k].tx # i
QueuedFor(i) == {k \in 1..Len(queue) : queue[k].tx = i}

(***************************************************************************)
(* C1: a listvaults whose status string is not a recognized lifecycle-state*)
(* name ends Rejected with an invalid-parameter error and has enqueued     *)
(* nothing, whatever its txids argument is.                                *)
(***************************************************************************)
C1_InvalidStatusRejected ==
    \A i \in Inv : IsListVaults(i) /\ BadStatus(i) => RejectedUnsent(i)

\* an unrecognized status with a valid txid list, rejected while a Shutdown
\* envelope sits in the queue
C1_Witness ==
    \E i \in Inv :
        /\ IsListVaults(i)
        /\ StatusArg(i) = Some("Funded")
        /\ TxidsArg(i) = Some(<<TxA>>)
        /\ pc[i] = "Rejected"
        /\ Len(queue) = 1

(***************************************************************************)
(* C2: a listvaults with at least one txid that is not a fixed-length hex  *)
(* hash, at any position, is rejected with an invalid-parameter error and  *)
(* enqueues nothing; a queued ListVaults envelope carries as many txids as *)
(* the caller gave, all of them valid.                                     *)
(***************************************************************************)
C2_TxidsAllOrNothing ==
    /\ \A i \in Inv : IsListVaults(i) /\ BadTxids(i) => RejectedUnsent(i)
    /\ \A k \in 1..Len(queue) :
           queue[k].kind = "ListVaults" /\ IsSome(queue[k].filter[2]) =>
               LET given == TxidsArg(queue[k].tx)
               IN  /\ IsSome(given)
                   /\ Len(Unwrap(queue[k].filter[2])) = Len(Unwrap(given))
                   /\ \A n \in 1..Len(Unwrap(given)) : IsHexTxid(Unwrap(given)[n])

\* a valid txid before the invalid one, and a valid status
C2_Witness ==
    \E i \in Inv :
        /\ IsListVaults(i)
        /\ StatusArg(i) = Some("funded")
        /\ TxidsArg(i) = Some(<<TxA, TxZZ>>)
        /\ pc[i] = "Rejected"

(***************************************************************************)
(* C3, as stated: a listvaults with valid filters that got past validation *)
(* has enqueued exactly one envelope.                                      *)
(***************************************************************************)
C3_ExactlyOneEnvelope ==
    \A i \in Inv :
        IsListVaults(i) /\ ValidFilters(i) /\ pc[i] # "Idle" => sends[i] = 1

(***************************************************************************)
(* C3, amended: a listvaults with valid filters enqueues exactly one       *)
(* envelope and returns from exactly one recv on the channel it made for   *)
(* it, unless the send fails because the queue's Receiver is gone: then it *)
(* enqueues nothing, receives nothing and ends Fatal.  It never sends      *)
(* twice, never receives twice, and never completes with a channel that    *)
(* was not paired with its envelope.                                       *)
(***************************************************************************)
C3_OneEnvelopeUnlessSendFails ==
    \A i \in Inv :
        IsListVaults(i) /\ ValidFilters(i) =>
            /\ pc[i] \in {"AwaitingReply", "Completed", "Fatal"}
            /\ sends[i] <= 1
            /\ recvs[i] <= 1
            /\ Cardinality(QueuedFor(i)) <= 1
            /\ \A k \in QueuedFor(i) :
                   queue[k].kind = "ListVaults" /\ queue[k].seq = seqOf[i]
            /\ pc[i] = "AwaitingReply" =>
                   /\ sends[i] = 1 /\ recvs[i] = 0
                   /\ chan[i].st \in {"open", "offered", "dropped"}
                   /\ chan[i].st = "open" /\ rxAlive => QueuedFor(i) # {}
            /\ pc[i] = "Completed" =>
                   /\ sends[i] = 1 /\ recvs[i] = 1
                   /\ got[i] = seqOf[i]
                   /\ chan[i].st = "done"
            /\ pc[i] = "Fatal" =>
                   \/ sends[i] = 0 /\ recvs[i] = 0 /\ ~rxAlive
                   \/ sends[i] = 1 /\ recvs[i] = 1 /\ chan[i].st = "dropped"

\* both filters present and valid, answered
C3_Witness ==
    \E i \in Inv :
        /\ IsListVaults(i)
        /\ StatusArg(i) = Some("funded")
        /\ TxidsArg(i) = Some(<<TxB, TxA>>)
        /\ pc[i] = "Completed"
        /\ sends[i] = 1
        /\ recvs[i] = 1

(***************************************************************************)
(* C4: a value the worker produced for an envelope is offered only on the  *)
(* channel of the invocation that enqueued that envelope, and an           *)
(* invocation returns only the value produced for its own envelope.        *)
(***************************************************************************)
C4_ReplyIsolation ==
    /\ \A i \in Inv :
           chan[i].st = "offered" => Unwrap(chan[i].val).forSeq = seqOf[i]
    /\ \A i \in Inv :
           Replied(i) /\ pc[i] = "Completed" => got[i] = seqOf[i] /\ got[i] # 0

\* one invocation has its answer while the value for another, which was
\* waiting at the same time, is on offer
C4_Witness ==
    \E i \in Inv, j \in Inv :
        /\ i # j
        /\ Replied(i) /\ pc[i] = "Completed" /\ got[i] = seqOf[i]
        /\ pc[j] = "AwaitingReply" /\ chan[j].st = "offered"
        /\ seqOf[j] = seqOf[i] + 1

(***************************************************************************)
(* C5: a getinfo or listvaults whose send failed, or whose reply channel   *)
(* was dropped without a value when it received, is Fatal: the process has *)
(* exited, the caller has no response, and neither the send nor the recv   *)
(* was repeated.                                                           *)
(***************************************************************************)
SendFailed(i) == Replied(i) /\ pc[i] \notin {"Idle", "Rejected"} /\ sends[i] = 0
RecvFailed(i) == Replied(i) /\ recvs[i] >= 1 /\ chan[i].st = "dropped"
C5_WorkerGoneIsFatal ==
    \A i \in Inv :
        /\ SendFailed(i) \/ RecvFailed(i) => pc[i] = "Fatal"
        /\ pc[i] = "Fatal" =>
               /\ exited
               /\ resp[i] = None
               /\ sends[i] + recvs[i] \in {0, 2}
               /\ sends[i] <= 1
               /\ SendFailed(i) \/ RecvFailed(i)

\* a getinfo enqueued behind a Shutdown: its reply Sender was dropped
C5_Witness ==
    \E i \in Inv :
        /\ op[i] = "getinfo"
        /\ pc[i] = "Fatal"
        /\ RecvFailed(i)
        /\ exited

(***************************************************************************)
(* C6, as stated: every stop returns success; none panics or is fatal.     *)
(***************************************************************************)
C6_StopAlwaysSucceeds ==
    \A i \in Inv :
        op[i] = "stop" =>
            /\ pc[i] \in {"Dispatched", "Completed"}
            /\ pc[i] = "Completed" => resp[i] = Some(Ok(<<>>))

(***************************************************************************)
(* C7: with stops running concurrently, the flag of a stop's context is    *)
(* true from its first step on, the worker loop ends at most once however  *)
(* many Shutdown envelopes were enqueued, and no stop makes the process    *)
(* exit.                                                                   *)
(***************************************************************************)
C7_StopIdempotent ==
    /\ terminations <= 1
    /\ terminations = 1 => firstShut # 0
    /\ \A i \in Inv :
           op[i] = "stop" =>
               /\ flag[meta[i]]
               /\ pc[i] # "Fatal"
               /\ sends[i] <= 1
    /\ (\E i \in Inv : op[i] = "stop" /\ pc[i] # "Idle") /\
       (\A i \in Inv : op[i] \in {"none", "stop"}) => ~exited

\* two stops that overlapped (the later one enqueued first), both returned,
\* one loop end
C7_Witness ==
    /\ op[1] = "stop" /\ op[2] = "stop"
    /\ pc[1] = "Completed" /\ pc[2] = "Completed"
    /\ seqOf[2] < seqOf[1]
    /\ meta[1] = meta[2]
    /\ terminations = 1
    /\ flag[meta[1]]

(***************************************************************************)
(* C8: the flag of a context is false when from_tx makes it, and once true *)
(* it is true in every later state.                                        *)
(***************************************************************************)
C8_FlagMonotonic ==
    /\ ~flag[1]
    /\ [][/\ \A a \in Arcs : flag[a] => flag'[a]
          /\ arcs' # arcs => ~flag'[arcs']]_vars

\* the flag a stop set is still set after a later shutdown() on the same Arc
C8_Witness ==
    /\ op[1] = "stop" /\ pc[1] = "Completed"
    /\ op[2] = "shutdown" /\ pc[2] = "Completed"
    /\ meta[1] = meta[2]
    /\ flag[meta[1]]

(***************************************************************************)
(* C9: whenever a Shutdown envelope sent through a context is in the queue *)
(* or was enqueued earlier (consumed or dropped since), that context's     *)
(* flag is true.                                                           *)
(***************************************************************************)
C9_FlagBeforeShutdownEnvelope ==
    /\ \A k \in 1..Len(queue) :
           queue[k].kind = "Shutdown" => flag[queue[k].via]
    /\ \A i \in Inv : op[i] = "stop" /\ sends[i] >= 1 => flag[meta[i]]

\* a Shutdown sent through the second context: its flag is set, the first
\* context's is not
C9_Witness ==
    \E k \in 1..Len(queue) :
        /\ queue[k].kind = "Shutdown"
        /\ queue[k].via = 2
        /\ flag[2]
        /\ ~flag[1]

(***************************************************************************)
(* C10: the worker executes no envelope enqueued after the first Shutdown  *)
(* envelope and no such envelope is answered with a value; when the loop   *)
(* has ended, every getinfo or listvaults envelope enqueued before that    *)
(* Shutdown has been executed and answered.                                *)
(***************************************************************************)
BeforeShutdown(n) == n # 0 /\ (firstShut = 0 \/ n < firstShut)
C10_ShutdownSequencing ==
    /\ \A n \in executed : BeforeShutdown(n)
    /\ \A i \in Inv :
           Replied(i) /\ pc[i] = "Completed" => BeforeShutdown(seqOf[i])
    /\ wpc = "terminated" =>
           \A i \in Inv :
               Replied(i) /\ BeforeShutdown(seqOf[i]) =>
                   /\ seqOf[i] \in executed
                   /\ pc[i] = "Completed"
                   /\ got[i] = seqOf[i]

\* a getinfo enqueued ahead of the Shutdown was answered before the loop
\* ended
C10_Witness ==
    \E i \in Inv :
        /\ op[i] = "getinfo"
        /\ seqOf[i] # 0 /\ seqOf[i] < firstShut
        /\ pc[i] = "Completed"
        /\ wpc = "terminated"

(***************************************************************************)
(* C11: the result a getinfo returns has, as network, blockheight and sync,*)
(* the first, second and third component of the triple that was on its     *)
(* reply channel when it received, and as version the VERSION constant.    *)
(***************************************************************************)
C11_GetInfoResult ==
    [][\A i \in Inv :
           op[i] = "getinfo" /\ pc[i] = "AwaitingReply" /\ pc'[i] = "Completed" =>
               /\ chan[i].st = "offered"
               /\ LET sent == Unwrap(chan[i].val).val
                  IN  resp'[i] = Some(Ok([version |-> VERSION,
                                          network |-> sent[1],
                                          blockheight |-> sent[2],
                                          sync |-> sent[3]]))]_vars

\* Scenario A: testnet at height 100, fully synced
C11_Witness ==
    \E i \in Inv :
        /\ op[i] = "getinfo"
        /\ pc[i] = "Completed"
        /\ Unwrap(resp[i]).val.network = "testnet"
        /\ Unwrap(resp[i]).val.blockheight = 100
        /\ Unwrap(resp[i]).val.sync = "1.0"
        /\ Unwrap(resp[i]).val.version = VERSION

(***************************************************************************)
(* C12: a reply channel is one-shot and unbuffered.  While a reply is on   *)
(* a channel and not yet received, the worker is still in that send (it    *)
(* has not gone on to another envelope), the owning handler is awaiting    *)
(* and has received nothing yet, and that is the only undelivered reply;   *)
(* a channel that has carried its value has no envelope left that could    *)
(* send a second one.                                                      *)
(***************************************************************************)
Undelivered == {i \in Inv : chan[i].st = "offered"}

C12_RendezvousOneShot ==
    /\ \A i \in Undelivered :
           /\ wpc = "sending"
           /\ pc[i] = "AwaitingReply"
           /\ recvs[i] = 0
    /\ Cardinality(Undelivered) <= 1
    /\ wpc = "sending" => Undelivered # {}
    /\ \A i \in Inv :
           chan[i].st \in {"offered", "done"} =>
               /\ QueuedFor(i) = {}
               /\ sends[i] = 1
               /\ seqOf[i] \in executed

\* a reply is undelivered while the next envelope is already waiting
C12_Witness ==
    \E i \in Inv :
        /\ chan[i].st = "offered"
        /\ wpc = "sending"
        /\ queue # <<>>
        /\ Head(queue).kind # "Shutdown"

(***************************************************************************)
(* C13, as claimed: the flag is one boolean for all contexts, so once a    *)
(* stop or shutdown() has been performed through any context, is_shutdown()*)
(* through every context returns true.  (Invocations start in the order of *)
(* their numbers, and stop and shutdown() store the flag as they start.)   *)
(***************************************************************************)
Stores(i) == op[i] \in {"stop", "shutdown"}
Loaded(j) == op[j] = "is_shutdown" /\ pc[j] = "Completed"

Awaiting(i) == pc[i] = "AwaitingReply" /\ ~exited
Left(i) == pc[i] \in {"Completed", "Fatal"} \/ exited

C14_NoHandlerBlocksForever ==
    \A i \in Inv : Awaiting(i) ~> Left(i)

\* an envelope enqueued after the Shutdown was never executed, and its
\* handler has left by the dropped channel
C14_Witness ==
    \E i \in Inv :
        /\ Replied(i)
        /\ sends[i] = 1
        /\ firstShut # 0 /\ firstShut < seqOf[i]
        /\ seqOf[i] \notin executed
        /\ recvs[i] = 1
        /\ pc[i] = "Fatal"

(***************************************************************************)
(* C15: the worker executes envelopes in the order they were enqueued.     *)
(* An executed envelope has every envelope enqueued before it executed     *)
(* too, with its reply delivered; what is still queued was enqueued after  *)
(* everything executed, and stands in enqueue order.                       *)
(***************************************************************************)
C15_FifoExecution ==
    /\ \A n \in executed : \A m \in 1..(n - 1) : m \in executed
    /\ \A i, j \in Inv :
           /\ seqOf[i] # 0 /\ seqOf[i] < seqOf[j]
           /\ seqOf[j] \in executed
           => /\ Replied(i)
              /\ pc[i] = "Completed"
              /\ got[i] = seqOf[i]
    /\ \A k \in 1..Len(queue) :
           /\ \A n \in executed : n < queue[k].seq
           /\ \A l \in 1..(k - 1) : queue[l].seq < queue[k].seq

\* two envelopes were enqueued while the worker was busy elsewhere or not
\* yet running, and both are executed, the earlier one first
C15_Witness ==
    \E i, j \in Inv :
        /\ seqOf[i] = 1 /\ seqOf[j] = 2
        /\ executed = {1, 2}
        /\ pc[i] = "Completed"
        /\ chan[j].st = "offered"

(***************************************************************************)
(* C16: commands are not gated on the flag.  A getinfo or a listvaults     *)
(* with valid filters that starts, whatever the flag of its context is,    *)
(* makes its channel and appends its envelope to the queue (the queue's    *)
(* Receiver being alive), and leaves the flag as it was.  Whether it is    *)
(* answered depends on its envelope's place relative to the first Shutdown *)
(* envelope alone: answered only if enqueued before it, and ended by the   *)
(* dropped channel only if enqueued after it.                              *)
(***************************************************************************)
StartsCommand(i) ==
    /\ pc[i] = "Idle"
    /\ op'[i] \in {"getinfo", "listvaults"}
    /\ pc'[i] # "Rejected"

EnqueuesItsEnvelope(i) ==
    /\ pc'[i] = "AwaitingReply"
    /\ chan'[i] = NewChannel
    /\ Len(queue') = Len(queue) + 1
    /\ SubSeq(queue', 1, Len(queue)) = queue
    /\ LET e == queue'[Len(queue')]
       IN  /\ e.kind = (IF op'[i] = "getinfo" THEN "GetInfo" ELSE "ListVaults")
           /\ e.tx = i
           /\ e.via = meta'[i]
           /\ e.seq = nextSeq
    /\ flag' = flag

AnsweredByPosition(i) ==
    /\ pc[i] # "Rejected"
    /\ pc[i] = "Completed" => BeforeShutdown(seqOf[i])
    /\ pc[i] = "Fatal" /\ sends[i] = 1 => ~BeforeShutdown(seqOf[i])
    /\ pc[i] = "Fatal" /\ sends[i] = 0 => ~rxAlive

C16_NoGatingOnFlag ==
    /\ [](\A i \in Inv :
              Replied(i) /\ ValidFilters(i) /\ pc[i] # "Idle" => AnsweredByPosition(i))
    /\ [][\A i \in Inv : StartsCommand(i) /\ rxAlive => EnqueuesItsEnvelope(i)]_vars

\* shutdown() set the flag and no Shutdown envelope exists: a getinfo that
\* started on the same context afterwards was enqueued and answered
C16_Witness ==
    \E i, j \in Inv :
        /\ i < j
        /\ op[i] = "shutdown" /\ meta[i] = meta[j]
        /\ flag[meta[j]]
        /\ op[j] = "getinfo"
        /\ sends[j] = 1
        /\ firstShut = 0
        /\ pc[j] = "Completed"

(***************************************************************************)
(* C17: shutdown() changes the flag of its context and nothing else: no    *)
(* envelope, the queue, the channels and the worker as they were.  The     *)
(* worker loop ends only on the step that consumes a Shutdown envelope,    *)
(* so never while no Shutdown envelope was sent, whatever the flag is.  A  *)
(* flag changes only on a step of stop or shutdown() on that context:      *)
(* getinfo, listvaults and is_shutdown() leave it, and a flag is true only *)
(* if a stop or shutdown() was invoked on its context.                     *)
(***************************************************************************)
ShutdownOnlyStoresFlag ==
    \A i \in Inv :
        op[i] = "none" /\ op'[i] = "shutdown" =>
            /\ flag' = [flag EXCEPT ![meta'[i]] = TRUE]
            /\ pc'[i] = "Completed"
            /\ UNCHANGED <<arcs, queue, rxAlive, chan, exited, resp>>
            /\ UNCHANGED <<wpc, executed, terminations>>
            /\ UNCHANGED <<nextSeq, seqOf, sends, firstShut>>

WorkerEndsOnShutdownEnvelope ==
    wpc' = "terminated" /\ wpc # "terminated" =>
        /\ queue # <<>>
        /\ Head(queue).kind = "Shutdown"
        /\ queue' = Tail(queue)

FlagChangesOnlyByStore ==
    \A a \in Arcs :
        flag'[a] # flag[a] =>
            \E i \in Inv :
                /\ op[i] = "none" /\ op'[i] \in {"stop", "shutdown"}
                /\ meta'[i] = a
                /\ flag'[a] = TRUE

FlagHasItsCause ==
    /\ \A a \in Arcs : flag[a] => \E i \in Inv : Stores(i) /\ meta[i] = a
    /\ \A i \in Inv : op[i] = "shutdown" => sends[i] = 0 /\ seqOf[i] = 0
    /\ wpc = "terminated" => firstShut # 0 /\ \E i \in Inv : op[i] = "stop" /\ sends[i] = 1
    /\ terminations <= 1

C17_FlagAndTerminationApart ==
    /\ []FlagHasItsCause
    /\ [][ShutdownOnlyStoresFlag]_vars
    /\ [][WorkerEndsOnShutdownEnvelope]_vars
    /\ [][FlagChangesOnlyByStore]_vars

\* the flag was set by shutdown() alone: the worker goes on answering
C17_Witness ==
    \E i, j \in Inv :
        /\ op[i] = "shutdown" /\ flag[meta[i]]
        /\ firstShut = 0
        /\ Replied(j) /\ seqOf[j] \in executed
        /\ wpc = "sending"

(***************************************************************************)
(* C18: the error of a rejected listvaults names one value, the first      *)
(* offending one in validation order.  With an unrecognized status it is   *)
(* the status-error naming the status string, whatever the txids are;      *)
(* otherwise it is the txid-error naming the first txid of the list that   *)
(* is no fixed-length hex hash, and no later one.                          *)
(***************************************************************************)
FirstInvalidTxid(i) ==
    LET ids == Unwrap(TxidsArg(i))
        k == CHOOSE k \in 1..Len(ids) :
                 /\ ~IsHexTxid(ids[k])
                 /\ \A l \in 1..(k - 1) : IsHexTxid(ids[l])
    IN  ids[k]

ErrorMessage(i) == Unwrap(resp[i]).err.message

C18_FirstOffenderNamed ==
    \A i \in Inv :
        IsListVaults(i) /\ pc[i] = "Rejected" =>
            IF BadStatus(i)
            THEN /\ Len(ErrorMessage(i)) = 3
                 /\ ErrorMessage(i)[3] = "' is not a valid vault status"
                 /\ ErrorMessage(i)[2] = Unwrap(StatusArg(i))
            ELSE /\ BadTxids(i)
                 /\ Len(ErrorMessage(i)) = 5
                 /\ ErrorMessage(i)[3] = "' is not a valid txid ("
                 /\ ErrorMessage(i)[2] = FirstInvalidTxid(i)

\* a recognized status and two invalid txids: the first one is named
C18_Witness ==
    \E i \in Inv :
        /\ IsListVaults(i) /\ pc[i] = "Rejected"
        /\ StatusArg(i) = Some("funded")
        /\ TxidsArg(i) = Some(<<TxOdd, TxZZ>>)
        /\ ErrorMessage(i)[2] = TxOdd

(***************************************************************************)
(* C19: a ListVaults envelope carries its caller's filters.  Its status is *)
(* absent exactly when the status argument is, and else the lifecycle      *)
(* state the argument names; its ids are absent exactly when the txids     *)
(* argument is, and else as many as the argument lists, the n-th being the *)
(* hash whose hex display is the n-th string (in lower case).              *)
(***************************************************************************)
LifecycleState == [funded |-> "Funded", spent |-> "Spent"]

\* the hex display of a hash: its bytes backwards, two lower-case digits each
Display(txid) ==
    [k \in 1..(2 * TXID_LEN) |->
        LET byte == txid[TXID_LEN - ((k - 1) \div 2)]
        IN  IF k % 2 = 1 THEN HexLower[(byte \div 16) + 1]
                         ELSE HexLower[(byte % 16) + 1]]

LowerCase(s) ==
    [k \in 1..Len(s) |->
        IF \E d \in 1..16 : HexUpper[d] = s[k]
        THEN HexLower[CHOOSE d \in 1..16 : HexUpper[d] = s[k]]
        ELSE s[k]]

CarriesFilters(e, i) ==
    /\ IsListVaults(i)
    /\ IsSome(e.filter[1]) <=> IsSome(StatusArg(i))
    /\ IsSome(e.filter[1]) =>
           /\ Unwrap(StatusArg(i)) \in DOMAIN LifecycleState
           /\ Unwrap(e.filter[1]) = LifecycleState[Unwrap(StatusArg(i))]
    /\ IsSome(e.filter[2]) <=> IsSome(TxidsArg(i))
    /\ IsSome(e.filter[2]) =>
           LET ids == Unwrap(e.filter[2])
               strs == Unwrap(TxidsArg(i))
           IN  /\ Len(ids) = Len(strs)
               /\ \A n \in 1..Len(strs) : Display(ids[n]) = LowerCase(strs[n])

C19_EnvelopeCarriesFilters ==
    \A k \in 1..Len(queue) :
        queue[k].kind = "ListVaults" => CarriesFilters(queue[k], queue[k].tx)

\* status omitted, two different txids given: forwarded in the given order
C19_Witness ==
    \E k \in 1..Len(queue) :
        /\ queue[k].kind = "ListVaults"
        /\ args[queue[k].tx] = <<None, Some(<<TxB, TxA>>)>>
        /\ queue[k].filter[1] = None
        /\ Len(Unwrap(queue[k].filter[2])) = 2
        /\ Display(Unwrap(queue[k].filter[2])[1]) = LowerCase(TxB)
        /\ Unwrap(queue[k].filter[2])[1] # Unwrap(queue[k].filter[2])[2]

====
